---- MODULE Spec2Model ----
(***************************************************************************)
(* Job scheduling and execution engine of backup-control:                  *)
(*   - the Process Registry        (src/src/instrumentation.ts:142-168)    *)
(*   - the Scheduler Loop          (src/src/instrumentation.ts:178-488)    *)
(*   - the Job Runner (run route)  (src/src/app/api/jobs/[id]/run/route.ts)*)
(*   - the verify route            (src/unnamed/part_007)                  *)
(*   - the stop route              (src/src/app/api/runs/[id]/stop/route.ts)*)
(*   - the Job Store               (src/src/lib/db.ts)                     *)
(*                                                                         *)
(* Time is counted in seconds (the code counts milliseconds; every         *)
(* constant of the code is a whole number of seconds).  The Node.js event  *)
(* loop is single threaded: every synchronous stretch of a handler is one  *)
(* atomic action, and an `await` of an I/O operation ends the action.      *)
(***************************************************************************)
EXTENDS Integers, Sequences, FiniteSets, TLC

\* ------------------------------------------------------------------------
\* Bounds of the model
\* ------------------------------------------------------------------------
MaxRuns == 1          \* runs created by this server instance
MaxPasses == 2        \* checkAndRun passes started (scheduler ticks)
MaxAdvances == 1      \* steps of the wall clock
MaxTimers == 1        \* force-kill timers armed at once for one run
MaxDay == 10          \* days 0..MaxDay of the instants the evaluator is applied to
MaxStarts == 1        \* startScheduler calls after the one of the server start

\* ------------------------------------------------------------------------
\* Program constants (seconds)
\* ------------------------------------------------------------------------
CHECK_INTERVAL == 60          \* CHECK_INTERVAL_MS = 60_000
STARTUP_DELAY == 30           \* setTimeout(..., 30_000) of startScheduler
DEBOUNCE_WINDOW == 600        \* 10 * 60_000
KILL_TIMEOUT == 5             \* setTimeout(..., 5000) of stopProcess
PROGRESS_INTERVAL == 5        \* now - lastProgressUpdate >= 5000
DAY == 86400
NoCode == 256                 \* `code === null` of a close event (exit codes are 0..255)
ENOENT == -2                  \* exit code handed to 'close' after a failed spawn

CancelSignals == {"SIGTERM", "SIGKILL"}
Signals == {"SIGTERM", "SIGKILL", "SIGINT"}
ExitCodes == {0, 1}
ErrorCounts == {0, 3}         \* values of stats.errors that the sync tool reports
ManualJobs == {2, 3}          \* jobs that users ask to run
VerifyJobs == {2}             \* jobs that users ask to verify
Terminal == {"success", "failure", "cancelled"}

\* The clock starts at 02:00:00 local time (UTC+2) of day 1.
T0 == DAY
TzOffset == 7200
Steps == {KILL_TIMEOUT, CHECK_INTERVAL, DEBOUNCE_WINDOW}

\* ------------------------------------------------------------------------
\* The jobs table (getAllJobs); the core never mutates jobs.
\* ------------------------------------------------------------------------
Jobs == <<
  [id |-> 1, type |-> "rclone_copy", enabled |-> TRUE,
   source_path |-> "/mnt/data", destination_path |-> "gdrive:data",
   schedule |-> [kind |-> "daily", h |-> 2, m |-> 0, n |-> 0, day |-> ""]],
  [id |-> 2, type |-> "rclone_sync", enabled |-> TRUE,
   source_path |-> "/mnt/media", destination_path |-> "gdrive:media",
   schedule |-> [kind |-> "every", h |-> 0, m |-> 0, n |-> 6, day |-> ""]],
  [id |-> 3, type |-> "rclone_copy", enabled |-> TRUE,
   source_path |-> "/mnt/photos", destination_path |-> "",
   schedule |-> [kind |-> "daily", h |-> 2, m |-> 0, n |-> 0, day |-> ""]],
  [id |-> 4, type |-> "rclone_copy", enabled |-> FALSE,
   source_path |-> "/mnt/docs", destination_path |-> "gdrive:docs",
   schedule |-> [kind |-> "daily", h |-> 2, m |-> 0, n |-> 0, day |-> ""]],
  [id |-> 5, type |-> "rclone_copy", enabled |-> TRUE,
   source_path |-> "/mnt/music", destination_path |-> "gdrive:music",
   schedule |-> [kind |-> "empty", h |-> 0, m |-> 0, n |-> 0, day |-> ""]]
>>
JobIds == {Jobs[i].id : i \in 1..Len(Jobs)}
getJobById(id) == CHOOSE j \in {Jobs[i] : i \in 1..Len(Jobs)} : j.id = id

VARIABLES
  now,               \* Date.now(), seconds
  advances,          \* number of clock steps taken
  runs,              \* the runs table: runs[id] is the row of run `id`
  runningProcesses,  \* keys of the Process Registry map
  child,             \* child[id]: the ChildProcess spawned for run `id`
  closure,           \* closure[id]: variables captured by the handlers of run `id`
  killTimers,        \* killTimers[id]: armed force-kill timers of stopProcess
  recentlyTriggered, \* jobId -> timestamp of the last scheduler trigger (0: none)
  passes,            \* checkAndRun passes in progress
  nextPass,          \* number of passes started so far
  notified,          \* notified[id]: statuses passed to the notifier for run `id`
  reconciled,        \* history: runs that the stop route finalized itself
  triggers,          \* history: triggers issued by the scheduler
  skipped,           \* history: jobs a pass skipped because a Run was running
  aborted,           \* history: passes ended by an exception, with the jobs left
  resp,              \* the HTTP response sent by the last step, if it was a request
  lastTick,          \* time of the last interval tick (0: none yet)
  timers,            \* the timers of the scheduler and its intervalId
  ev,                \* one evaluation of a job by the loop body: inputs and result
  parser,            \* the progress parser fed with the chunks of one output stream
  conv,              \* one byte-unit conversion: input and result
  cmd                \* one argument vector built by the run route: inputs and result

vars == <<now, advances, runs, runningProcesses, child, closure, killTimers,
          recentlyTriggered, passes, nextPass, notified, reconciled,
          triggers,
          skipped, aborted, resp, lastTick, timers, ev, parser, conv, cmd>>

RunIds == 1..(MaxRuns + 1)

\* ------------------------------------------------------------------------
\* Job Store (src/src/lib/db.ts)
\* ------------------------------------------------------------------------
getRunByIdMutRunning(db, id) == [status |-> "running"]
getRunById(db, id) == IF id \in 1..Len(db) THEN db[id] ELSE [status |-> "none"]

\* INSERT INTO runs (job_id, status, short_summary) VALUES (?, 'running', 'Job started...')
\* Of a row the model keeps the job, the status, the start time and the error
\* counter; the summary and the log excerpt are texts derived from these by
\* the caller.  started_at is the clock of the insertion.
createRun(db, jobId, t) ==
  Append(db, [job_id |-> jobId, status |-> "running",
              started_at |-> t, errors_count |-> 0])

\* UPDATE runs SET status = @status, errors_count = @errors_count, ... WHERE id = @id
completeRunMutLost(db, id, status, errors) == db
completeRunMutFirstWins(db, id, status, errors) ==
  IF id \notin 1..Len(db) \/ db[id].status # "running" THEN db
  ELSE [db EXCEPT ![id] = [@ EXCEPT !.status = status, !.errors_count = errors]]
completeRun(db, id, status, errors) ==
  IF id \notin 1..Len(db) THEN db
  ELSE [db EXCEPT ![id] = [@ EXCEPT !.status = status, !.errors_count = errors]]

\* The newest db.ts is not among the sources; a progress snapshot is persisted
\* "during a still-running Run" (spec glossary).
updateRunProgress(db, id, errors) ==
  IF id \in 1..Len(db) /\ db[id].status = "running"
  THEN [db EXCEPT ![id] = [@ EXCEPT !.errors_count = errors]]
  ELSE db

\* SELECT COUNT(*) FROM runs WHERE job_id = ? AND status = 'running'
RunningRuns(db, jobId) ==
  {r \in 1..Len(db) : db[r].job_id = jobId /\ db[r].status = "running"}

\* ------------------------------------------------------------------------
\* ChildProcess (Node.js child_process) as the handlers observe it
\*   st = "none"    no process of this server instance
\*        "failed"  spawn() failed; the 'error' event is pending
\*        "live"    the process runs
\*        "errored" 'error' has been emitted for the failed spawn, 'close' is pending
\*        "exited"  the process has exited, 'close' is pending
\*        "closed"  'close' has been emitted
\*   killed         child.killed: a signal was successfully sent with kill()
\*   lastSignal     the last signal that kill() delivered to the process
\*   code, signal   the arguments of the 'close' event, once it is emitted
\* Nothing reads how the process ended before 'close' is emitted, so the
\* exit code and signal are chosen when 'close' is emitted.
\* ------------------------------------------------------------------------
NoChild == [st |-> "none", killed |-> FALSE, lastSignal |-> "null",
            code |-> NoCode, signal |-> "null"]

\* child.kill(sig): the signal is sent, and child.killed set, only while the
\* process handle is alive; otherwise kill() returns false and changes nothing.
KillDelivered(c) == c.st = "live"
kill(c, sig) ==
  IF KillDelivered(c) THEN [c EXCEPT !.killed = TRUE, !.lastSignal = sig] ELSE c

\* ------------------------------------------------------------------------
\* Process Registry (process-manager, src/src/instrumentation.ts:142-168)
\* ------------------------------------------------------------------------
registerProcess(reg, runId) == reg \cup {runId}
unregisterProcessMutKeep(reg, runId) == reg

unregisterProcess(reg, runId) == reg \ {runId}

\* const child = runningProcesses.get(runId);
\* if (!child || child.killed) return false; ... return true;
stopProcessMutAlwaysTrue(reg, ch, runId) == TRUE
stopProcess(reg, ch, runId) == runId \in reg /\ ~ch[runId].killed

isProcessRunning(reg, ch, runId) == runId \in reg /\ ~ch[runId].killed

\* setTimeout(() => { if (!child.killed) child.kill("SIGKILL"); }, 5000)
TimerKills(c) == ~c.killed

\* ------------------------------------------------------------------------
\* Schedule Evaluator (scheduler, src/src/instrumentation.ts:248-456)
\* ------------------------------------------------------------------------
Max(S) == CHOOSE x \in S : \A y \in S : y <= x

\* SELECT started_at FROM runs WHERE job_id = ? ORDER BY started_at DESC LIMIT 1
\* (0 stands for null: no row)
getLastRunTimeForJob(db, jobId) ==
  LET mine == {r \in 1..Len(db) : db[r].job_id = jobId}
  IN  IF mine = {} THEN 0 ELSE Max({db[r].started_at : r \in mine})

isJobRunningMutNever(db, jobId) == FALSE
isJobRunning(db, jobId) == RunningRuns(db, jobId) # {}

\* The time zones the runtime knows, and the UTC offset of a zone at an
\* instant (what Intl.DateTimeFormat and toLocaleString compute).  Europe/Kyiv
\* is on summer time from DstStart to DstEnd (both at 01:00 UTC on a Sunday).
DstStart == 3 * DAY + 3600
DstEnd == 10 * DAY + 3600
KyivNames == {"Europe/Kyiv", "Europe/Kiev"}
KnownZones == {"Europe/Kyiv", "Europe/Kiev", "UTC"}
Offset(tz, t) ==
  IF tz \in KyivNames
  THEN (IF DstStart <= t /\ t < DstEnd THEN TzOffset + 3600 ELSE TzOffset)
  ELSE 0

\* resolveTimezone (instrumentation.ts:332-354): the zone itself if the
\* runtime accepts it, else its Kyiv/Kiev alias if accepted, else "UTC" with a
\* warning.  `known` are the zones the runtime accepts.
Alias(tz) ==
  IF tz = "Europe/Kyiv" THEN "Europe/Kiev"
  ELSE IF tz = "Europe/Kiev" THEN "Europe/Kyiv"
  ELSE "none"
resolveTimezoneMutKeep(tz, known) == [tz |-> tz, log |-> {}]
resolveTimezone(tz, known) ==
  IF tz \in known THEN [tz |-> tz, log |-> {}]
  ELSE IF Alias(tz) \in known THEN [tz |-> Alias(tz), log |-> {"tz-alias"}]
  ELSE [tz |-> "UTC", log |-> {"tz-fallback"}]

\* Local calendar day, second of the day and weekday (0 = Sunday; day 0 of the
\* epoch is a Thursday) of a UTC instant in a zone.
getLocalTime(nowUTC, tz) ==
  [day |-> (nowUTC + Offset(tz, nowUTC)) \div DAY,
   secOfDay |-> (nowUTC + Offset(tz, nowUTC)) % DAY,
   dayOfWeek |-> (((nowUTC + Offset(tz, nowUTC)) \div DAY) + 4) % 7]

\* probe = Date.UTC(y, m, d, hour, minute); offsetMs = the zone's offset at
\* the probe; return localAsUTC - offsetMs
localTimeToUTC(day, hour, minute, tz) ==
  (day * DAY + hour * 3600 + minute * 60)
    - Offset(tz, day * DAY + hour * 3600 + minute * 60)

\* "daily HH:MM" (instrumentation.ts:255-274); lastRun = 0 stands for null
isDueDaily(h, m, tz, nowUTC, lastRun) ==
  LET targetUTC == localTimeToUTC(getLocalTime(nowUTC, tz).day, h, m, tz)
  IN  IF nowUTC < targetUTC THEN FALSE
      ELSE IF lastRun # 0 /\ lastRun >= targetUTC THEN FALSE
      ELSE TRUE

\* "every Nh" (instrumentation.ts:276-293)
isDueEveryMutStrict(n, nowUTC, lastRun) ==
  IF lastRun = 0 THEN TRUE ELSE nowUTC - lastRun > n * 3600
isDueEvery(n, nowUTC, lastRun) ==
  IF lastRun = 0 THEN TRUE ELSE nowUTC - lastRun >= n * 3600

\* parseDayOfWeek (instrumentation.ts:415-426): map[day.toLowerCase()] ?? -1
DayNumber(d) ==
  CASE d \in {"sun", "sunday"} -> 0
    [] d \in {"mon", "monday"} -> 1
    [] d \in {"tue", "tuesday"} -> 2
    [] d \in {"wed", "wednesday"} -> 3
    [] d \in {"thu", "thursday"} -> 4
    [] d \in {"fri", "friday"} -> 5
    [] d \in {"sat", "saturday"} -> 6
    [] OTHER -> -1
parseDayOfWeekMutSunday(d) == IF DayNumber(d) < 0 THEN 0 ELSE DayNumber(d)
parseDayOfWeek(d) == DayNumber(d)

\* "weekly DAY HH:MM" (instrumentation.ts:295-322); day is the result of
\* parseDayOfWeek
isDueWeekly(day, h, m, tz, nowUTC, lastRun) ==
  LET local == getLocalTime(nowUTC, tz)
      targetUTC == localTimeToUTC(local.day, h, m, tz)
  IN  IF day < 0 THEN FALSE
      ELSE IF local.dayOfWeek # day THEN FALSE
      ELSE IF nowUTC < targetUTC THEN FALSE
      ELSE IF lastRun # 0 /\ lastRun >= targetUTC THEN FALSE
      ELSE TRUE

\* Schedules are kept parsed: kind is the shape that the regular expressions
\* of isDue match ("other": none of them).
isDue(job, tz, nowUTC, db) ==
  LET s == job.schedule
      lastRun == getLastRunTimeForJob(db, job.id)
  IN  CASE s.kind = "daily" -> isDueDaily(s.h, s.m, tz, nowUTC, lastRun)
        [] s.kind = "every" -> isDueEvery(s.n, nowUTC, lastRun)
        [] s.kind = "weekly" ->
             isDueWeekly(parseDayOfWeek(s.day), s.h, s.m, tz, nowUTC, lastRun)
        [] OTHER -> FALSE

\* ------------------------------------------------------------------------
\* Scheduler Loop: checkAndRun (src/src/instrumentation.ts:207-239)
\* ------------------------------------------------------------------------
\* if (!job.enabled) continue; if (!job.schedule) continue;
\* if (!job.source_path || !job.destination_path) continue;
ConfiguredMutAnyJob(job) ==
  /\ job.schedule.kind # "empty"
  /\ job.source_path # "" /\ job.destination_path # ""
Configured(job) ==
  /\ job.enabled
  /\ job.schedule.kind # "empty"
  /\ job.source_path # "" /\ job.destination_path # ""

\* const lastTriggered = recentlyTriggered.get(job.id) || 0;
\* if (nowUTC - lastTriggered < 10 * 60_000) continue;
DebouncedMutNever(rt, jobId, nowUTC) == FALSE
DebouncedMutInclusive(rt, jobId, nowUTC) == nowUTC - rt[jobId] <= DEBOUNCE_WINDOW
Debounced(rt, jobId, nowUTC) == nowUTC - rt[jobId] < DEBOUNCE_WINDOW

\* const tz = resolveTimezone(getSetting("timezone") || "Europe/Kyiv")
TimezoneSetting == "Europe/Kyiv"
SchedTz == resolveTimezone(TimezoneSetting, KnownZones).tz

\* The job passes every `continue` of the loop body and reaches isDue.
Examined(job, rt, db, nowUTC) ==
  /\ Configured(job)
  /\ ~Debounced(rt, job.id, nowUTC)
  /\ ~isJobRunning(db, job.id)

\* The synchronous stretch of the for loop that starts at index i: it ends at
\* the first job that is triggered (the loop then awaits triggerJob), at the
\* job whose evaluation throws (the catch is outside the loop), or at the end
\* of the list.  `thrower` is the index of the job whose evaluation throws
\* (0: none).
RECURSIVE Scan(_, _, _, _, _)
Scan(i, nowUTC, thrower, rt, db) ==
  IF i > Len(Jobs) THEN [kind |-> "done", idx |-> i]
  ELSE IF ~Examined(Jobs[i], rt, db, nowUTC) THEN Scan(i + 1, nowUTC, thrower, rt, db)
  ELSE IF i = thrower THEN [kind |-> "throw", idx |-> i]
  ELSE IF isDue(Jobs[i], SchedTz, nowUTC, db) THEN [kind |-> "trigger", idx |-> i]
  ELSE Scan(i + 1, nowUTC, thrower, rt, db)

\* Jobs after index k that pass every check of the loop body and are due.
DueAfter(k, nowUTC, rt, db) ==
  {Jobs[i].id : i \in {x \in (k + 1)..Len(Jobs) :
                         /\ Examined(Jobs[x], rt, db, nowUTC)
                         /\ isDue(Jobs[x], SchedTz, nowUTC, db)}}

\* Jobs in i..k that the loop skipped at the isJobRunning check.
SkippedRunning(i, k, nowUTC, rt, db) ==
  {Jobs[x].id : x \in {y \in i..k : /\ y <= Len(Jobs)
                                    /\ Configured(Jobs[y])
                                    /\ ~Debounced(rt, Jobs[y].id, nowUTC)
                                    /\ isJobRunning(db, Jobs[y].id)}}

\* ------------------------------------------------------------------------
\* Job Runner: outcome of the 'close' handlers
\* ------------------------------------------------------------------------
\* wasSignaled = signal === "SIGTERM" || signal === "SIGKILL"
wasSignaled(signal) == signal \in CancelSignals

\* run route (route.ts:228-237)
CloseStatusMutAnySignal(code, signal) ==
  IF signal # "null" THEN "cancelled"
  ELSE IF code = 0 THEN "success" ELSE "failure"
CloseStatusMutTermOnly(code, signal) ==
  IF signal = "SIGTERM" THEN "cancelled"
  ELSE IF code = 0 THEN "success" ELSE "failure"
CloseStatus(code, signal) ==
  IF wasSignaled(signal) THEN "cancelled"
  ELSE IF code = 0 THEN "success"
  ELSE "failure"

\* errors_count: wasSignaled ? errorsCount : (code === 0 ? errorsCount : (errorsCount || 1))
CloseErrorsMutReset(code, signal, errorsCount) ==
  IF wasSignaled(signal) THEN errorsCount
  ELSE IF code = 0 THEN 0
  ELSE IF errorsCount = 0 THEN 1 ELSE errorsCount
CloseErrors(code, signal, errorsCount) ==
  IF wasSignaled(signal) THEN errorsCount
  ELSE IF code = 0 THEN errorsCount
  ELSE IF errorsCount = 0 THEN 1 ELSE errorsCount

\* if (!wasSignaled) await sendJobNotification(...)
NotifyOnCloseMutAlways(signal) == TRUE
NotifyOnClose(signal) == ~wasSignaled(signal)

\* verify route (part_007:200-213)
VerifyCloseStatus(code, signal, errorsCount) ==
  IF wasSignaled(signal) THEN "cancelled"
  ELSE IF code = 0 /\ errorsCount = 0 THEN "success"
  ELSE "failure"

\* ------------------------------------------------------------------------
\* Byte counts.  A count can exceed the integers of the model checker
\* (1 TiB = 2^40), so a count is a sequence of base-1024 limbs, the least
\* significant first, without leading zero limbs; the count 0 is <<0>>.
\* ------------------------------------------------------------------------
Base == 1024

RECURSIVE Limbs(_)
Limbs(n) == IF n < Base THEN <<n>> ELSE <<n % Base>> \o Limbs(n \div Base)

RECURSIVE Trim(_)
Trim(ds) ==
  IF Len(ds) > 1 /\ ds[Len(ds)] = 0 THEN Trim(SubSeq(ds, 1, Len(ds) - 1)) ELSE ds

\* ds * 1024^k
Times1024(ds, k) == [i \in 1..k |-> 0] \o ds

\* ds + a, for 0 <= a < Base
RECURSIVE AddSmall(_, _)
AddSmall(ds, a) ==
  IF a = 0 THEN ds
  ELSE IF ds = << >> THEN <<a>>
  ELSE <<(ds[1] + a) % Base>> \o AddSmall(Tail(ds), (ds[1] + a) \div Base)

\* The remainder of the limbs i..Len(ds) of ds divided by d.
RECURSIVE RemFrom(_, _, _)
RemFrom(ds, i, d) ==
  IF i > Len(ds) THEN 0 ELSE (RemFrom(ds, i + 1, d) * Base + ds[i]) % d

\* floor(ds / d), for 0 < d < Base
DivSmall(ds, d) ==
  Trim([i \in 1..Len(ds) |-> (RemFrom(ds, i + 1, d) * Base + ds[i]) \div d])

\* Math.round(x) for x = ds / 10 >= 0: floor(x + 1/2)
RoundTenths(ds) == DivSmall(AddSmall(ds, 5), 10)

\* ------------------------------------------------------------------------
\* parseTransferredBytes (route.ts:294-304).  `value` is the text of a
\* number with at most one decimal, given in tenths (parseFloat("1.5") is
\* 15 tenths); `unit` is the word that follows it.
\* ------------------------------------------------------------------------
UnitWords == {"B", "Bytes", "KiB", "KB", "kB", "MiB", "MB", "GiB", "GB", "TiB", "TB", "files"}

\* unit.toUpperCase()
toUpperCase(unit) ==
  CASE unit = "Bytes" -> "BYTES"
    [] unit = "KiB" -> "KIB"
    [] unit = "kB" -> "KB"
    [] unit = "MiB" -> "MIB"
    [] unit = "GiB" -> "GIB"
    [] unit = "TiB" -> "TIB"
    [] unit = "files" -> "FILES"
    [] OTHER -> unit

parseTransferredBytesMutDecimal(value, unit) ==
  LET u == toUpperCase(unit)
  IN  CASE u \in {"B", "BYTES"} -> RoundTenths(Limbs(value))
        [] u = "KIB" -> RoundTenths(Times1024(Limbs(value), 1))
        [] u = "KB" -> RoundTenths(Limbs(value * 1000))
        [] u \in {"MIB", "MB"} -> RoundTenths(Times1024(Limbs(value), 2))
        [] u \in {"GIB", "GB"} -> RoundTenths(Times1024(Limbs(value), 3))
        [] u \in {"TIB", "TB"} -> RoundTenths(Times1024(Limbs(value), 4))
        [] OTHER -> RoundTenths(Limbs(value))
parseTransferredBytes(value, unit) ==
  LET u == toUpperCase(unit)
  IN  CASE u \in {"B", "BYTES"} -> RoundTenths(Limbs(value))
        [] u \in {"KIB", "KB"} -> RoundTenths(Times1024(Limbs(value), 1))
        [] u \in {"MIB", "MB"} -> RoundTenths(Times1024(Limbs(value), 2))
        [] u \in {"GIB", "GB"} -> RoundTenths(Times1024(Limbs(value), 3))
        [] u \in {"TIB", "TB"} -> RoundTenths(Times1024(Limbs(value), 4))
        [] OTHER -> RoundTenths(Limbs(value))

\* ------------------------------------------------------------------------
\* Progress Parser: parseRcloneStats (route.ts:116-152).
\* A text is a sequence of tokens [k, v]; tokens of a text line are separated
\* by blanks.  The tokens:
\*   newline                      "\n"
\*   {stats  bytes transfers errors  }    {"stats":{ "bytes":v, ... }}
\*   {msg  ...  }                 {"msg":"..."} around the words of a message
\*   null                         the JSON text null
\*   Transferred:  Errors:  /  ,  the words of the free-text statistics
\*   num                          a number with at most one decimal, v in tenths
\*   a word of UnitWords, word    a unit, any other word
\*   429                          a word that the rate-limit pattern matches
\* ------------------------------------------------------------------------
Tok(k, v) == [k |-> k, v |-> v]
Newline == Tok("newline", 0)

\* text.split("\n")
RECURSIVE split(_)
split(text) ==
  IF \A i \in 1..Len(text) : text[i] # Newline THEN <<text>>
  ELSE LET n == CHOOSE i \in 1..Len(text) :
                  text[i] = Newline /\ \A j \in 1..(i - 1) : text[j] # Newline
       IN  <<SubSeq(text, 1, n - 1)>> \o split(SubSeq(text, n + 1, Len(text)))

NoCounters == [bytes |-> <<0>>, files |-> 0, errors |-> 0, rateLimitHits |-> 0]

StatsMembers == {"bytes", "transfers", "errors"}
JsonPunctuation == {"{stats", "{msg", "}", "newline"} \cup StatsMembers

\* JSON.parse(line) and the read of entry.stats:
\*   "stats"    an object with a stats object
\*   "other"    another JSON value without stats (a log message, a number)
\*   "null"     the value null: reading entry.stats raises a TypeError
\*   "invalid"  JSON.parse raises a SyntaxError
JsonKind(line) ==
  LET n == Len(line)
      inner == {line[i].k : i \in 2..(n - 1)}
  IN  IF n >= 2 /\ line[1].k = "{stats" /\ line[n].k = "}" /\ inner \subseteq StatsMembers
        THEN "stats"
      ELSE IF n >= 2 /\ line[1].k = "{msg" /\ line[n].k = "}"
              /\ inner \cap JsonPunctuation = {}
        THEN "other"
      ELSE IF n = 1 /\ line[1].k = "num" THEN "other"
      ELSE IF n = 1 /\ line[1].k = "null" THEN "null"
      ELSE "invalid"

\* if (entry.stats.bytes != null) bytesTransferred = entry.stats.bytes; ...
RECURSIVE StatsUpdate(_, _, _)
StatsUpdate(c, line, i) ==
  IF i > Len(line) THEN c
  ELSE LET t == line[i]
           c1 == CASE t.k = "bytes" -> [c EXCEPT !.bytes = Limbs(t.v)]
                   [] t.k = "transfers" -> [c EXCEPT !.files = t.v]
                   [] t.k = "errors" -> [c EXCEPT !.errors = t.v]
                   [] OTHER -> c
       IN  StatsUpdate(c1, line, i + 1)

\* \w+ matches the start of the token
IsWord(t) == t.k \in UnitWords \cup {"num", "word", "null", "429", "Transferred:", "Errors:"}

\* /Transferred:\s+([\d.]+)\s*(\w+)/ at token i: the number is followed by a
\* word, or the pattern backtracks and takes the last character of the number
\* as the word (a number of two or more characters).
BytesMatchAt(line, i) ==
  /\ i + 1 <= Len(line)
  /\ line[i].k = "Transferred:" /\ line[i + 1].k = "num"
  /\ \/ i + 2 <= Len(line) /\ IsWord(line[i + 2])
     \/ line[i + 1].v % 10 # 0
     \/ line[i + 1].v >= 100

BytesOfMatch(line, i) ==
  LET v == line[i + 1].v
  IN  IF i + 2 <= Len(line) /\ IsWord(line[i + 2])
        THEN parseTransferredBytes(v, line[i + 2].k)
      ELSE IF v % 10 # 0
        THEN parseTransferredBytes(10 * (v \div 10), "digit")
      ELSE parseTransferredBytes(10 * ((v \div 10) \div 10), "digit")

\* /Transferred:\s+(\d+)\s*\/\s*\d+,/ at token i
FilesMatchAt(line, i) ==
  /\ i + 4 <= Len(line)
  /\ line[i].k = "Transferred:"
  /\ line[i + 1].k = "num" /\ line[i + 1].v % 10 = 0
  /\ line[i + 2].k = "/"
  /\ line[i + 3].k = "num" /\ line[i + 3].v % 10 = 0
  /\ line[i + 4].k = ","

\* /Errors:\s+(\d+)/ at token i
ErrMatchAt(line, i) ==
  /\ i + 1 <= Len(line)
  /\ line[i].k = "Errors:" /\ line[i + 1].k = "num"

Leftmost(S) == CHOOSE i \in S : \A j \in S : i <= j

\* The body of the catch clause: the three free-text patterns.
TextUpdate(c, line) ==
  LET bs == {i \in 1..Len(line) : BytesMatchAt(line, i)}
      fs == {i \in 1..Len(line) : FilesMatchAt(line, i)}
      es == {i \in 1..Len(line) : ErrMatchAt(line, i)}
  IN  [c EXCEPT
         !.bytes = IF bs = {} THEN @ ELSE BytesOfMatch(line, Leftmost(bs)),
         !.files = IF fs = {} THEN @ ELSE line[Leftmost(fs) + 1].v \div 10,
         !.errors = IF es = {} THEN @ ELSE line[Leftmost(es) + 1].v \div 10]

\* /403|429|rate.?limit|User Rate Limit|quota/i.test(line)
RateLimited(line) == \E i \in 1..Len(line) : line[i].k = "429"

\* One iteration of the loop body over a non-blank line.
parseLineMutTextAlways(c, line) ==
  LET c1 == IF RateLimited(line) THEN [c EXCEPT !.rateLimitHits = @ + 1] ELSE c
      kind == JsonKind(line)
  IN  IF kind = "stats" THEN TextUpdate(StatsUpdate(c1, line, 1), line)
      ELSE TextUpdate(c1, line)
parseLine(c, line) ==
  LET c1 == IF RateLimited(line) THEN [c EXCEPT !.rateLimitHits = @ + 1] ELSE c
      kind == JsonKind(line)
  IN  IF kind = "stats" THEN StatsUpdate(c1, line, 1)
      ELSE IF kind = "other" THEN c1
      ELSE \* SyntaxError or TypeError, caught
           TextUpdate(c1, line)

RECURSIVE parseLines(_, _, _)
parseLines(c, lines, i) ==
  IF i > Len(lines) THEN c
  ELSE IF lines[i] = << >> THEN parseLines(c, lines, i + 1)   \* if (!line.trim()) continue
  ELSE parseLines(parseLine(c, lines[i]), lines, i + 1)

\* The counters after parseRcloneStats(text), from the counters c.
parseRcloneStats(c, text) == parseLines(c, split(text), 1)

\* ------------------------------------------------------------------------
\* Job Runner: the argument vector of the run route (route.ts:27-79)
\* ------------------------------------------------------------------------
\* switch (job.type) { case "rclone_sync": ... case "rclone_check": ... default: "copy" }
rcloneCmdMutNoCheck(type) == IF type = "rclone_sync" THEN "sync" ELSE "copy"
rcloneCmd(type) ==
  CASE type = "rclone_sync" -> "sync"
    [] type = "rclone_check" -> "check"
    [] OTHER -> "copy"

rcloneConfig == "/etc/rclone/rclone.conf"

\* job.flags is empty ("none"), the JSON text of an array ("array"), another
\* JSON text ("json"), or a text that is not JSON ("text"); `parts` are the
\* elements of the array, or else the words of the text between blanks
\* (job.flags.split(/\s+/).filter(Boolean)).  JSON.parse succeeds on the
\* forms "array" and "json", and only an array is pushed.
extraFlags(flags) ==
  IF flags.form \in {"array", "text"} THEN flags.parts ELSE << >>

runArgs(job, flags, maxBandwidth) ==
  <<rcloneCmd(job.type), job.source_path, job.destination_path,
    "--config", rcloneConfig, "--stats-one-line", "--stats", "5s", "-v",
    "--use-json-log">>
    \o (IF job.type = "rclone_check" THEN <<"--one-way">> ELSE << >>)
    \o (IF maxBandwidth # "" THEN <<"--bwlimit", maxBandwidth>> ELSE << >>)
    \o extraFlags(flags)

\* ------------------------------------------------------------------------
\* Initial state: the server has just started.  The runs table is empty, or
\* it holds a Run that a previous server instance left in status 'running'
\* (the registry is in memory and is empty after a restart).
\* ------------------------------------------------------------------------
OrphanRun ==
  [job_id |-> 2, status |-> "running", started_at |-> T0 - DAY, errors_count |-> 0]

NoClosure == [route |-> "none", errorsCount |-> 0, lastProgressUpdate |-> 0]
NoEval == [pc |-> "idle", job |-> Jobs[1], setting |-> TimezoneSetting,
           known |-> KnownZones, tz |-> "none", due |-> FALSE, log |-> {}]
NoResp == [op |-> "none", id |-> 0, status |-> 0]

\* The scheduler after register() has called startScheduler at the start of
\* the server (instrumentation.ts:8-9), 30 s before T0:
\*   intervalId   the module variable (0: null)
\*   startups     the times at which the pending startup timeouts are due
\*   intervals    the active interval timers, each with the time of its next tick
\*   ids          number of setInterval calls so far
\*   calls        number of later startScheduler calls
\*   stopped      stopScheduler has returned and startScheduler was not called since
ServerStarted == [intervalId |-> 0, startups |-> <<T0>>, intervals |-> {}, ids |-> 0,
                  calls |-> 0, stopped |-> FALSE]
NoParser == [pc |-> "idle", text |-> << >>, cut |-> 0, fed |-> 0,
             before |-> NoCounters, last |-> << >>, c |-> NoCounters]
NoConv == [pc |-> "idle", value |-> 0, unit |-> "B", bytes |-> <<0>>]
NoCmd == [pc |-> "idle", job |-> Jobs[1], flags |-> [form |-> "none", parts |-> << >>],
          maxBandwidth |-> "", args |-> << >>]
Response(op, id, status) == [op |-> op, id |-> id, status |-> status]


Init ==
  /\ now = T0
  /\ advances = 0
  /\ runs \in {<< >>, <<OrphanRun>>}
  /\ runningProcesses = {}
  /\ child = [r \in RunIds |-> NoChild]
  /\ closure = [r \in RunIds |-> NoClosure]
  /\ killTimers = [r \in RunIds |-> 0]
  /\ recentlyTriggered = [j \in JobIds |-> 0]
  /\ passes = {}
  /\ nextPass = 0
  /\ notified = [r \in RunIds |-> << >>]
  /\ reconciled = {}
  /\ triggers = {}
  /\ skipped = {}
  /\ aborted = {}
  /\ resp = NoResp
  /\ lastTick = 0
  /\ timers = ServerStarted
  /\ ev = NoEval
  /\ parser = NoParser
  /\ conv = NoConv
  /\ cmd = NoCmd

unitVars == <<parser, conv, cmd>>
schedVars == <<recentlyTriggered, passes, nextPass, triggers, skipped, aborted,
               lastTick, timers, ev, unitVars>>
procVars == <<runningProcesses, child, closure, killTimers, notified, reconciled>>

\* The wall clock advances.
AdvanceTime(d) ==
  /\ advances < MaxAdvances
  /\ now' = now + d
  /\ advances' = advances + 1
  /\ resp' = NoResp
  /\ UNCHANGED <<runs, procVars, schedVars>>

\* ------------------------------------------------------------------------
\* POST /api/jobs/{id}/run (route.ts:7-102, 285-289) and
\* POST /api/jobs/{id}/verify (part_007:7-105, 250-254):
\* validate, createRun, spawn, registerProcess.
\* ------------------------------------------------------------------------
\* Runs created by this server instance.
Created == Cardinality({r \in 1..Len(runs) : child[r].st # "none"})

\* if (!job.source_path || !job.destination_path)
PathsMissingMutSourceOnly(job) == job.source_path = ""
PathsMissing(job) == job.source_path = "" \/ job.destination_path = ""

StartRun(jobId, route, spawnOk) ==
  LET job == getJobById(jobId)
      id == Len(runs) + 1
  IN  IF PathsMissing(job)
      THEN /\ resp' = Response(route, jobId, 400)
           /\ UNCHANGED <<runs, runningProcesses, child, closure>>
      ELSE /\ Created < MaxRuns
           /\ runs' = createRun(runs, jobId, now)
           /\ child' = [child EXCEPT ![id] =
                          [NoChild EXCEPT !.st = IF spawnOk THEN "live" ELSE "failed"]]
           /\ runningProcesses' = registerProcess(runningProcesses, id)
           /\ closure' = [closure EXCEPT ![id] = [NoClosure EXCEPT !.route = route]]
           /\ resp' = Response(route, jobId, 200)

\* A user requests a run of a job.
ManualRun(jobId, spawnOk) ==
  /\ StartRun(jobId, "run", spawnOk)
  /\ UNCHANGED <<now, advances, killTimers, notified, reconciled, schedVars>>

\* A user requests a verification of a job.
VerifyRun(jobId, spawnOk) ==
  /\ StartRun(jobId, "verify", spawnOk)
  /\ UNCHANGED <<now, advances, killTimers, notified, reconciled, schedVars>>

\* ------------------------------------------------------------------------
\* Subprocess events
\* ------------------------------------------------------------------------
\* stdout/stderr 'data' (route.ts:104-206, part_007:107-183): the parser sets
\* the counters, then persists a snapshot if 5 s have passed since the last.
\* if (now - lastProgressUpdate >= 5000)
ProgressDueMutAlways(t, lastProgressUpdate) == TRUE
ProgressDue(t, lastProgressUpdate) == t - lastProgressUpdate >= PROGRESS_INTERVAL

ProcData(r, e) ==
  /\ child[r].st = "live"
  /\ LET persist == ProgressDue(now, closure[r].lastProgressUpdate)
     IN  /\ closure' = [closure EXCEPT ![r] =
                          [@ EXCEPT !.errorsCount = e,
                                    !.lastProgressUpdate = IF persist THEN now ELSE @]]
         /\ runs' = IF persist THEN updateRunProgress(runs, r, e) ELSE runs
  /\ resp' = NoResp
  /\ UNCHANGED <<now, advances, runningProcesses, child, killTimers, notified, reconciled,
                 schedVars>>

\* The process ends, by itself or by a signal; its stdio streams are still open.
ProcExit(r) ==
  /\ child[r].st = "live"
  /\ child' = [child EXCEPT ![r] = [@ EXCEPT !.st = "exited"]]
  /\ resp' = NoResp
  /\ UNCHANGED <<now, advances, runs, runningProcesses, closure, killTimers,
                 notified, reconciled, schedVars>>

\* child.on("error") (route.ts:262-283, part_007:237-248): the spawn failed.
\* Node.js emits 'close' with the negative errno after the 'error' event.
ProcError(r) ==
  /\ child[r].st = "failed"
  /\ runningProcesses' = unregisterProcess(runningProcesses, r)
  /\ runs' = completeRun(runs, r, "failure", 1)
  /\ notified' = IF closure[r].route = "run"
                 THEN [notified EXCEPT ![r] = Append(@, "failure")]
                 ELSE notified
  /\ child' = [child EXCEPT ![r] = [@ EXCEPT !.st = "errored"]]
  /\ resp' = NoResp
  /\ UNCHANGED <<now, advances, closure, killTimers, reconciled, schedVars>>

\* How a process can have ended: with an exit code, or by a signal (sent by
\* stopProcess or by anything else on the host); after a failed spawn the
\* code is the negative errno.
CloseArgs(c, code, signal) ==
  \/ c.st = "exited" /\ code \in ExitCodes /\ signal = "null"
  \/ c.st = "exited" /\ code = NoCode /\ signal \in Signals
  \/ c.st = "errored" /\ code = ENOENT /\ signal = "null"

\* child.on("close", (code, signal) => ...) (route.ts:208-260, part_007:185-235)
ProcClose(r, code, signal) ==
  /\ CloseArgs(child[r], code, signal)
  /\ LET errorsCount == closure[r].errorsCount
         status == IF closure[r].route = "verify"
                   THEN VerifyCloseStatus(code, signal, errorsCount)
                   ELSE CloseStatus(code, signal)
         errors == IF closure[r].route = "verify" THEN errorsCount
                   ELSE CloseErrors(code, signal, errorsCount)
     IN  /\ runs' = completeRun(runs, r, status, errors)
         /\ notified' = IF NotifyOnClose(signal)
                        THEN [notified EXCEPT ![r] = Append(@, status)]
                        ELSE notified
  /\ runningProcesses' = unregisterProcess(runningProcesses, r)
  /\ child' = [child EXCEPT ![r] = [@ EXCEPT !.st = "closed", !.code = code,
                                              !.signal = signal]]
  \* the counters captured by the handlers are dead
  /\ closure' = [closure EXCEPT ![r] = [NoClosure EXCEPT !.route = closure[r].route]]
  /\ resp' = NoResp
  /\ UNCHANGED <<now, advances, killTimers, reconciled, schedVars>>

\* ------------------------------------------------------------------------
\* POST /api/runs/{id}/stop (stop/route.ts:5-36) with stopProcess
\* (instrumentation.ts:152-163)
\* ------------------------------------------------------------------------
StopRoute(r) ==
  LET run == getRunById(runs, r)
      killed == stopProcess(runningProcesses, child, r)
  IN  /\ IF run.status = "none"
         THEN /\ resp' = Response("stop", r, 404)
              /\ UNCHANGED <<runs, child, killTimers, reconciled>>
         ELSE IF run.status # "running"
         THEN /\ resp' = Response("stop", r, 400)
              /\ UNCHANGED <<runs, child, killTimers, reconciled>>
         ELSE IF killed
         THEN \* child.kill("SIGTERM"); setTimeout(..., 5000); return true
              /\ killTimers[r] < MaxTimers
              /\ child' = [child EXCEPT ![r] = kill(@, "SIGTERM")]
              /\ killTimers' = [killTimers EXCEPT ![r] = @ + 1]
              /\ resp' = Response("stop", r, 200)
              /\ UNCHANGED <<runs, reconciled>>
         ELSE \* process not found in memory: mark as cancelled directly
              /\ runs' = completeRun(runs, r, "cancelled", 0)
              /\ reconciled' = reconciled \cup {r}
              /\ resp' = Response("stop", r, 200)
              /\ UNCHANGED <<child, killTimers>>
      /\ UNCHANGED <<now, advances, runningProcesses, closure, notified, schedVars>>

\* The force-kill timer armed by stopProcess fires.
KillTimerFire(r) ==
  /\ killTimers[r] > 0
  /\ killTimers' = [killTimers EXCEPT ![r] = @ - 1]
  /\ IF TimerKills(child[r])
     THEN child' = [child EXCEPT ![r] = kill(@, "SIGKILL")]
     ELSE UNCHANGED child
  /\ resp' = NoResp
  /\ UNCHANGED <<now, advances, runs, runningProcesses, closure, notified, reconciled,
                 schedVars>>

\* ------------------------------------------------------------------------
\* Scheduler Loop
\* ------------------------------------------------------------------------
\* One synchronous stretch of checkAndRun for pass `id`, from job index i.
Stretch(id, nowUTC, i, thrower) ==
  LET res == Scan(i, nowUTC, thrower, recentlyTriggered, runs)
      job == Jobs[res.idx]
      rest == {p \in passes : p.id # id}
  IN  /\ skipped' = skipped \cup SkippedRunning(i, res.idx, nowUTC, recentlyTriggered, runs)
      /\ CASE res.kind = "trigger" ->
                \* recentlyTriggered.set(job.id, nowUTC); await triggerJob(job.id)
                /\ recentlyTriggered' = [recentlyTriggered EXCEPT ![job.id] = nowUTC]
                /\ triggers' = triggers \cup {[pass |-> id, job |-> job.id, at |-> nowUTC]}
                /\ passes' = rest \cup {[id |-> id, nowUTC |-> nowUTC,
                                         idx |-> res.idx, pc |-> "await"]}
                /\ UNCHANGED aborted
           [] res.kind = "throw" ->
                \* catch (err) { console.error(...) } outside the loop
                /\ aborted' = aborted \cup
                     {[pass |-> id,
                       left |-> DueAfter(res.idx, nowUTC, recentlyTriggered, runs)]}
                /\ passes' = rest
                /\ UNCHANGED <<recentlyTriggered, triggers>>
           [] OTHER ->
                /\ passes' = rest
                /\ UNCHANGED <<recentlyTriggered, triggers, aborted>>

\* A pending startup timeout is due: checkAndRun();
\* intervalId = setInterval(checkAndRun, CHECK_INTERVAL_MS)
RemoveAt(s, i) == SubSeq(s, 1, i - 1) \o SubSeq(s, i + 1, Len(s))
StartupFires(t, i) ==
  [t EXCEPT !.startups = RemoveAt(@, i),
            !.ids = @ + 1,
            !.intervalId = t.ids + 1,
            !.intervals = @ \cup {[id |-> t.ids + 1, due |-> now + CHECK_INTERVAL]}]

\* An active interval timer is due: checkAndRun(); the next tick of the timer
\* is an interval later.
IntervalFires(t, iv) ==
  [t EXCEPT !.intervals = (@ \ {iv}) \cup {[iv EXCEPT !.due = now + CHECK_INTERVAL]}]

\* stopScheduler (instrumentation.ts:197-203):
\* if (intervalId) { clearInterval(intervalId); intervalId = null; }
clearInterval(intervals, id) == {iv \in intervals : iv.id # id}

\* The startup timeout or an interval timer fires: checkAndRun starts.
TickStart(thrower) ==
  /\ nextPass < MaxPasses
  /\ \/ \E i \in 1..Len(timers.startups) :
          now >= timers.startups[i] /\ timers' = StartupFires(timers, i)
     \/ \E iv \in timers.intervals :
          now >= iv.due /\ timers' = IntervalFires(timers, iv)
  /\ lastTick' = now
  /\ UNCHANGED <<ev, unitVars>>
  /\ nextPass' = nextPass + 1
  /\ Stretch(nextPass + 1, now, 1, thrower)
  /\ resp' = NoResp
  /\ UNCHANGED <<now, advances, runs, procVars>>

\* triggerJob (instrumentation.ts:473-488): the POST reaches the run route,
\* or the request fails; either way triggerJob returns normally.
TriggerDeliver(p, reached, spawnOk) ==
  /\ p \in passes /\ p.pc = "await"
  /\ IF reached
     THEN StartRun(Jobs[p.idx].id, "run", spawnOk)
     ELSE /\ resp' = NoResp
          /\ UNCHANGED <<runs, runningProcesses, child, closure>>
  /\ passes' = (passes \ {p}) \cup {[p EXCEPT !.pc = "resume"]}
  /\ UNCHANGED <<now, advances, killTimers, notified, reconciled, recentlyTriggered,
                 nextPass, triggers, skipped, aborted, lastTick, timers, ev, unitVars>>

\* The awaited triggerJob has returned: the loop goes on with the next job.
PassResume(p, thrower) ==
  /\ p \in passes /\ p.pc = "resume"
  /\ Stretch(p.id, p.nowUTC, p.idx + 1, thrower)
  /\ resp' = NoResp
  /\ UNCHANGED <<now, advances, runs, procVars, nextPass, lastTick, timers, ev,
                 unitVars>>

\* startScheduler (instrumentation.ts:184-195):
\* if (intervalId) return; setTimeout(() => { ... }, 30_000)
StartScheduler ==
  /\ timers.calls < MaxStarts
  /\ timers' = [timers EXCEPT
                  !.calls = @ + 1,
                  !.stopped = FALSE,
                  !.startups = IF timers.intervalId # 0 THEN @
                               ELSE Append(@, now + STARTUP_DELAY)]
  /\ resp' = NoResp
  /\ UNCHANGED <<now, advances, runs, procVars, recentlyTriggered, passes, nextPass,
                 triggers, skipped, aborted, lastTick, ev, unitVars>>

\* stopScheduler (instrumentation.ts:197-203)
StopScheduler ==
  /\ timers' = [timers EXCEPT
                  !.stopped = TRUE,
                  !.intervals = IF timers.intervalId # 0
                                THEN clearInterval(@, timers.intervalId) ELSE @,
                  !.intervalId = 0]
  /\ resp' = NoResp
  /\ UNCHANGED <<now, advances, runs, procVars, recentlyTriggered, passes, nextPass,
                 triggers, skipped, aborted, lastTick, ev, unitVars>>

\* ------------------------------------------------------------------------
\* One evaluation of a job by the loop body of checkAndRun
\* (instrumentation.ts:210-235): the zone is resolved, isDue is applied to the
\* clock and to the last run of the job, and a due job is logged as triggered.
\* ------------------------------------------------------------------------
Evaluate ==
  /\ ev.pc = "input"
  /\ LET res == resolveTimezone(ev.setting, ev.known)
         due == isDue(ev.job, res.tz, now, runs)
     IN  ev' = [ev EXCEPT !.pc = "done", !.tz = res.tz, !.due = due,
                          !.log = res.log \cup (IF due THEN {"triggering"} ELSE {})]
  /\ UNCHANGED <<now, advances, runs, procVars, recentlyTriggered, passes, nextPass,
                 triggers, skipped, aborted, resp, lastTick, timers, unitVars>>

\* Inputs of the evaluation: schedule strings of every shape, zone settings
\* that the runtime accepts or not, instants around midnight, the target
\* times and the changes of offset, and a last run at or before the clock.
EvalSchedules ==
  {[kind |-> "daily", h |-> 2, m |-> 0, n |-> 0, day |-> ""],
   [kind |-> "every", h |-> 0, m |-> 0, n |-> 6, day |-> ""],
   [kind |-> "weekly", h |-> 2, m |-> 0, n |-> 0, day |-> "sun"],
   [kind |-> "weekly", h |-> 5, m |-> 0, n |-> 0, day |-> "mon"],
   [kind |-> "weekly", h |-> 5, m |-> 0, n |-> 0, day |-> "xyz"],
   [kind |-> "other", h |-> 0, m |-> 0, n |-> 0, day |-> ""]}
EvalSettings == {"Europe/Kyiv", "Mars/Phobos"}
EvalRuntimes == {KnownZones, {"Europe/Kiev", "UTC"}}
EvalTimes == {0, 300, 10800, 21300, 21600, 82800, 84600, 86340}
EvalInstants == {d * DAY + t : d \in 0..MaxDay, t \in EvalTimes} \ {0}
EvalRun(t) == [job_id |-> 1, status |-> "success", started_at |-> t, errors_count |-> 0]

EvalInit ==
  /\ now \in EvalInstants
  /\ runs \in {<< >>} \cup {<<EvalRun(t)>> : t \in {x \in EvalInstants : x <= now}}
  /\ ev \in {[NoEval EXCEPT !.pc = "input",
                            !.job = [Jobs[1] EXCEPT !.schedule = sch],
                            !.setting = tz, !.known = kn] :
               sch \in EvalSchedules, tz \in EvalSettings, kn \in EvalRuntimes}
  /\ advances = 0
  /\ runningProcesses = {}
  /\ child = [r \in RunIds |-> NoChild]
  /\ closure = [r \in RunIds |-> NoClosure]
  /\ killTimers = [r \in RunIds |-> 0]
  /\ recentlyTriggered = [j \in JobIds |-> 0]
  /\ passes = {}
  /\ nextPass = 0
  /\ notified = [r \in RunIds |-> << >>]
  /\ reconciled = {}
  /\ triggers = {}
  /\ skipped = {}
  /\ aborted = {}
  /\ resp = NoResp
  /\ lastTick = 0
  /\ timers = ServerStarted
  /\ parser = NoParser
  /\ conv = NoConv
  /\ cmd = NoCmd

\* ------------------------------------------------------------------------
\* The pure functions of the Job Runner applied to their inputs
\* ------------------------------------------------------------------------
\* The server variables while a function is applied on its own.
ServerIdle ==
  /\ now = T0
  /\ advances = 0
  /\ runs = << >>
  /\ runningProcesses = {}
  /\ child = [r \in RunIds |-> NoChild]
  /\ closure = [r \in RunIds |-> NoClosure]
  /\ killTimers = [r \in RunIds |-> 0]
  /\ recentlyTriggered = [j \in JobIds |-> 0]
  /\ passes = {}
  /\ nextPass = 0
  /\ notified = [r \in RunIds |-> << >>]
  /\ reconciled = {}
  /\ triggers = {}
  /\ skipped = {}
  /\ aborted = {}
  /\ resp = NoResp
  /\ lastTick = 0
  /\ timers = ServerStarted
  /\ ev = NoEval

serverVars == <<now, advances, runs, procVars, recentlyTriggered, passes, nextPass,
                triggers, skipped, aborted, resp, lastTick, timers, ev>>

\* The chunk that the next 'data' event delivers: the whole text if cut = 0,
\* otherwise the text before the cut, then the rest.
NextChunk(p) ==
  IF p.cut = 0 THEN p.text
  ELSE IF p.fed = 0 THEN SubSeq(p.text, 1, p.cut)
  ELSE SubSeq(p.text, p.cut + 1, Len(p.text))

\* child.stdout.on("data") / child.stderr.on("data"): parseRcloneStats(text)
Feed ==
  /\ parser.pc = "input"
  /\ parser' = [parser EXCEPT
                  !.before = parser.c,
                  !.last = NextChunk(parser),
                  !.c = parseRcloneStats(parser.c, NextChunk(parser)),
                  !.fed = @ + 1,
                  !.pc = IF parser.cut = 0 \/ parser.fed = 1 THEN "done" ELSE "input"]
  /\ UNCHANGED <<serverVars, conv, cmd>>

\* Lines of the output of the sync tool: JSON statistics, complete and
\* partial, a JSON log message that quotes a statistics text, the free-text
\* statistics, a rate-limit message, the JSON text null.
ParserLines ==
  {<<Tok("{stats", 0), Tok("bytes", 2048), Tok("transfers", 2), Tok("errors", 3),
     Tok("}", 0)>>,
   <<Tok("{stats", 0), Tok("bytes", 4096), Tok("}", 0)>>,
   <<Tok("{msg", 0), Tok("Errors:", 0), Tok("num", 70), Tok("}", 0)>>,
   <<Tok("Transferred:", 0), Tok("num", 15), Tok("KiB", 0)>>,
   <<Tok("Transferred:", 0), Tok("num", 120), Tok("/", 0), Tok("num", 200),
     Tok(",", 0)>>,
   <<Tok("Errors:", 0), Tok("num", 20)>>,
   <<Tok("word", 0), Tok("429", 0)>>,
   <<Tok("null", 0)>>}
ParserTexts ==
  {l \o <<Newline>> : l \in ParserLines}
    \cup {l1 \o <<Newline>> \o l2 \o <<Newline>> : l1, l2 \in ParserLines}

ParserInit ==
  /\ ServerIdle
  /\ \E t \in ParserTexts :
        \E k \in 0..(Len(t) - 1) :
          parser = [NoParser EXCEPT !.pc = "input", !.text = t, !.cut = k]
  /\ conv = NoConv
  /\ cmd = NoCmd

\* bytesTransferred = parseTransferredBytes(bytesMatch[1], bytesMatch[2])
Convert ==
  /\ conv.pc = "input"
  /\ conv' = [conv EXCEPT !.pc = "done",
                          !.bytes = parseTransferredBytes(conv.value, conv.unit)]
  /\ UNCHANGED <<serverVars, parser, cmd>>

\* Numbers in tenths: 0, 0.1, 0.5, 0.7, 1, 1.5, 2.3, 12.3, 500, 1023.9
ConvValues == {0, 1, 5, 7, 10, 15, 23, 123, 5000, 10239}

UnitInit ==
  /\ ServerIdle
  /\ parser = NoParser
  /\ \E v \in ConvValues, u \in UnitWords :
        conv = [NoConv EXCEPT !.pc = "input", !.value = v, !.unit = u]
  /\ cmd = NoCmd

\* The arguments of spawn("rclone", args, ...)
BuildArgs ==
  /\ cmd.pc = "input"
  /\ cmd' = [cmd EXCEPT !.pc = "done",
                        !.args = runArgs(cmd.job, cmd.flags, cmd.maxBandwidth)]
  /\ UNCHANGED <<serverVars, parser, conv>>

JobTypes == {"rclone_copy", "rclone_sync", "rclone_check", "immich_db_backup"}
BandwidthSettings == {"", "10M", "512k"}
FlagSettings ==
  {[form |-> "none", parts |-> << >>],
   [form |-> "array", parts |-> <<"--fast-list", "--exclude=*.tmp">>],
   [form |-> "json", parts |-> <<"\"--dry-run\"">>],
   [form |-> "text", parts |-> <<"--transfers", "4">>],
   [form |-> "text", parts |-> <<"--dry-run">>]}

ArgsInit ==
  /\ ServerIdle
  /\ parser = NoParser
  /\ conv = NoConv
  /\ \E ty \in JobTypes, bw \in BandwidthSettings, fl \in FlagSettings :
        cmd = [NoCmd EXCEPT !.pc = "input", !.job = [Jobs[1] EXCEPT !.type = ty],
                            !.flags = fl, !.maxBandwidth = bw]

RunnerNext ==
  \/ \E j \in ManualJobs, ok \in BOOLEAN : ManualRun(j, ok)
  \/ \E j \in VerifyJobs, ok \in BOOLEAN : VerifyRun(j, ok)
  \/ \E r \in RunIds, e \in ErrorCounts : ProcData(r, e)
  \/ \E r \in RunIds : ProcExit(r)
  \/ \E r \in RunIds : ProcError(r)
  \/ \E r \in RunIds, c \in ExitCodes \cup {NoCode, ENOENT}, s \in Signals \cup {"null"} :
        ProcClose(r, c, s)
  \/ \E r \in RunIds : StopRoute(r)
  \/ \E r \in RunIds : KillTimerFire(r)

SchedNext ==
  \/ \E d \in Steps : AdvanceTime(d)
  \/ \E t \in 0..Len(Jobs) : TickStart(t)
  \/ \E p \in passes, reached \in BOOLEAN, ok \in BOOLEAN : TriggerDeliver(p, reached, ok)
  \/ \E p \in passes, t \in 0..Len(Jobs) : PassResume(p, t)

\* The operations that change the status of a Run.
LifecycleNext ==
  \/ \E j \in ManualJobs, ok \in BOOLEAN : ManualRun(j, ok)
  \/ \E j \in VerifyJobs, ok \in BOOLEAN : VerifyRun(j, ok)
  \/ \E r \in RunIds : ProcExit(r)
  \/ \E r \in RunIds : ProcError(r)
  \/ \E r \in RunIds, c \in ExitCodes \cup {NoCode, ENOENT}, s \in Signals \cup {"null"} :
        ProcClose(r, c, s)
  \/ \E r \in RunIds : StopRoute(r)

\* The scheduler is started and stopped while its timers fire.
TimerSteps == {STARTUP_DELAY, CHECK_INTERVAL}
TimerNext ==
  \/ StartScheduler
  \/ StopScheduler
  \/ \E d \in TimerSteps : AdvanceTime(d)
  \/ \E t \in 0..Len(Jobs) : TickStart(t)
  \/ \E p \in passes, reached \in BOOLEAN, ok \in BOOLEAN : TriggerDeliver(p, reached, ok)
  \/ \E p \in passes, t \in 0..Len(Jobs) : PassResume(p, t)

Next ==
  RunnerNext \/ SchedNext \/ Evaluate \/ Feed \/ Convert \/ BuildArgs
    \/ StartScheduler \/ StopScheduler

Spec == Init /\ [][Next]_vars

\* The Job Runner, the stop route and the Process Registry without the scheduler.
RunnerSpec == Init /\ [][RunnerNext]_vars

\* The Job Runner when every subprocess ends (by itself or on a signal) and
\* the event loop delivers the 'error' and 'close' events of every process.
FairRunnerSpec ==
  /\ Init /\ [][RunnerNext]_vars
  /\ \A r \in RunIds :
       /\ WF_vars(ProcExit(r))
       /\ WF_vars(ProcError(r))
       /\ WF_vars(\E c \in ExitCodes \cup {NoCode, ENOENT}, s \in Signals \cup {"null"} :
                    ProcClose(r, c, s))

\* The Scheduler Loop with every operation that changes the status of a Run.
SchedSpec == Init /\ [][SchedNext \/ LifecycleNext]_vars

\* The timers of the Scheduler Loop under startScheduler and stopScheduler.
TimerSpec == Init /\ [][TimerNext]_vars

\* The Schedule Evaluator applied to one job, for every input.
EvalSpec == EvalInit /\ [][Evaluate]_vars

\* The output stream of a run: chunks of output arrive while the clock runs.
ChunkGaps == {3, PROGRESS_INTERVAL}
ProgressNext ==
  \/ \E j \in ManualJobs, ok \in BOOLEAN : ManualRun(j, ok)
  \/ \E j \in VerifyJobs, ok \in BOOLEAN : VerifyRun(j, ok)
  \/ \E r \in RunIds, e \in ErrorCounts : ProcData(r, e)
  \/ \E d \in ChunkGaps : AdvanceTime(d)
  \/ \E r \in RunIds : ProcExit(r)
  \/ \E r \in RunIds, c \in ExitCodes \cup {NoCode, ENOENT}, s \in Signals \cup {"null"} :
        ProcClose(r, c, s)

ProgressSpec == Init /\ [][ProgressNext]_vars

\* The Progress Parser fed with one output stream, whole or cut in two chunks.
ParserSpec == ParserInit /\ [][Feed]_vars

\* The byte-unit conversion applied to one number and one unit.
UnitSpec == UnitInit /\ [][Convert]_vars

\* The argument vector built for one job and one set of settings.
ArgsSpec == ArgsInit /\ [][BuildArgs]_vars

\* ========================================================================
\* Properties
\* ========================================================================
Ids == 1..Len(runs)

\* C1: in every reachable state every job has at most one Run with status
\* 'running', whatever the interleaving of scheduler ticks, manual run
\* requests, verify requests and process exits.
AtMostOneRunningPerJob ==
  \A j \in JobIds : Cardinality(RunningRuns(runs, j)) <= 1

\* C2: once the status of a Run is terminal, no step changes any field of
\* its row (close/error handlers, stop route, progress update).
TerminalRunNeverMutated ==
  [][\A r \in Ids : runs[r].status \in Terminal => runs'[r] = runs[r]]_vars

\* C3: a Run whose process was sent the termination signal by a stop request
\* and closed with that signal is 'cancelled' from the close on, and no
\* notification has been emitted for it, then or later.
StoppedRunIsCancelledSilently ==
  \A r \in Ids :
    (child[r].st = "closed" /\ child[r].killed /\ child[r].signal = child[r].lastSignal)
      => (runs[r].status = "cancelled" /\ notified[r] = << >>)

StoppedRunClosed ==
  \E r \in Ids : /\ child[r].st = "closed" /\ child[r].killed
                 /\ child[r].signal = "SIGTERM" /\ child[r].lastSignal = "SIGTERM"
                 /\ runs[r].status = "cancelled"

\* C4: when the force-kill timer of stopProcess fires for a process that was
\* sent SIGTERM and has not exited, the callback sends SIGKILL to it.
ForceKillAfterTimeout ==
  [][\A r \in RunIds :
       (killTimers'[r] < killTimers[r] /\ child[r].st = "live"
          /\ child[r].lastSignal = "SIGTERM")
         => child'[r].lastSignal = "SIGKILL"]_vars

DebouncedAtMostOnce ==
  \A t1 \in triggers, t2 \in triggers :
    (t1.job = t2.job /\ t1.pass # t2.pass)
      => (t1.at - t2.at >= DEBOUNCE_WINDOW \/ t2.at - t1.at >= DEBOUNCE_WINDOW)

\* The first tick awaits its trigger of job 1; the second tick, one interval
\* later, has passed job 1, which is due and has no Run, and triggered job 2.
SecondTickDuringAwait ==
  \E p1 \in passes, p2 \in passes :
    /\ p1.id = 1 /\ p1.pc = "await" /\ Jobs[p1.idx].id = 1
    /\ p2.id = 2 /\ p2.nowUTC - p1.nowUTC = CHECK_INTERVAL /\ Jobs[p2.idx].id = 2
    /\ isDue(Jobs[1], SchedTz, p2.nowUTC, runs)
    /\ RunningRuns(runs, 1) = {}
    /\ Cardinality({t \in triggers : t.job = 1}) = 1

\* C7: a tick never triggers a job that has a Run with status 'running' when
\* the tick examines the job.
TriggeredJobNotRunning ==
  [][\A t \in triggers' \ triggers : RunningRuns(runs, t.job) = {}]_vars

RunningJobSkipped ==
  /\ 2 \in skipped
  /\ \E t \in triggers : t.job = 1
  /\ \A t \in triggers : t.job # 2

\* C8: when the evaluation of one job throws in a tick, every other job that
\* is due in that tick and passes the checks is still triggered in that tick.
ExceptionIsolatedPerJob ==
  \A a \in aborted : \A j \in a.left : \E t \in triggers : t.pass = a.pass /\ t.job = j

\* C9: after the close of the subprocess of a backup run, the status of the
\* Run is 'cancelled' if it closed with SIGTERM or SIGKILL, otherwise
\* 'success' if the exit code is 0, otherwise 'failure'; the error count of
\* the parser does not enter.
BackupCloseStatus ==
  \A r \in Ids :
    (child[r].st = "closed" /\ closure[r].route = "run")
      => runs[r].status =
           IF child[r].signal = "SIGTERM" \/ child[r].signal = "SIGKILL" THEN "cancelled"
           ELSE IF child[r].code = 0 THEN "success"
           ELSE "failure"

SuccessWithErrors ==
  \E r \in Ids : /\ child[r].st = "closed" /\ closure[r].route = "run"
                 /\ child[r].code = 0
                 /\ runs[r].errors_count = 3
                 /\ runs[r].status = "success"

\* C10: a Run is notified at most once; a Run that ended as success or
\* failure has been notified exactly once, a cancelled Run never.
ExactlyOneNotification ==
  \A r \in Ids :
    /\ Len(notified[r]) <= 1
    /\ (child[r].st = "closed" /\ runs[r].status \in {"success", "failure"})
         => Len(notified[r]) = 1
    /\ runs[r].status = "cancelled" => notified[r] = << >>

\* C11: after a failed spawn ('error' event) the Run is 'failure' with error
\* count 1 and a failure notification has been emitted, for runs of the run
\* route and of the verify route.
SpawnFailureFinalized ==
  \A r \in Ids :
    (child[r].st = "errored" \/ (child[r].st = "closed" /\ child[r].code = ENOENT))
      => /\ runs[r].status = "failure"
         /\ runs[r].errors_count = 1
         /\ notified[r] # << >>
         /\ \A i \in 1..Len(notified[r]) : notified[r][i] = "failure"

\* ------------------------------------------------------------------------
\* The rules of the Schedule Evaluator as the specification states them, in
\* the local time of the zone.
\* ------------------------------------------------------------------------
EvLastRun == getLastRunTimeForJob(runs, ev.job.id)
EvSchedule == ev.job.schedule
EvLocal == getLocalTime(now, ev.tz)

\* now.minuteOfDay >= h*60+m and (no last run, or last run on another local
\* date, or last run strictly before today's target minute)
DailyRule(h, m, tz, t, lastRun) ==
  /\ getLocalTime(t, tz).secOfDay >= h * 3600 + m * 60
  /\ \/ lastRun = 0
     \/ getLocalTime(lastRun, tz).day # getLocalTime(t, tz).day
     \/ getLocalTime(lastRun, tz).secOfDay < h * 3600 + m * 60

\* C12: for 'daily HH:MM' isDue is true exactly when the local minute of the
\* day has reached HH:MM and the job has no run, or its last run started on
\* another local date or before today's target.
DailyDueExactly ==
  (ev.pc = "done" /\ EvSchedule.kind = "daily")
    => (ev.due <=> DailyRule(EvSchedule.h, EvSchedule.m, ev.tz, now, EvLastRun))

\* C13: for 'daily HH:MM', after a run of the job that started today at or
\* after the target time isDue is false for the rest of the local day, and
\* isDue is never true before the target time of the local day.
DailyOncePerDay ==
  (ev.pc = "done" /\ EvSchedule.kind = "daily")
    => /\ ev.due => EvLocal.secOfDay >= EvSchedule.h * 3600 + EvSchedule.m * 60
       /\ (/\ EvLastRun # 0
           /\ getLocalTime(EvLastRun, ev.tz).day = EvLocal.day
           /\ getLocalTime(EvLastRun, ev.tz).secOfDay
                >= EvSchedule.h * 3600 + EvSchedule.m * 60)
            => ~ev.due

\* C14: for 'every Nh' isDue is true exactly when the job has no run or at
\* least N hours have passed since the start of its last run.
EveryDueExactly ==
  (ev.pc = "done" /\ EvSchedule.kind = "every")
    => (ev.due <=> (EvLastRun = 0 \/ now - EvLastRun >= EvSchedule.n * 3600))

\* Six hours to the second after the last run the job is due.
EveryDueAtSixHours ==
  /\ ev.pc = "done" /\ EvSchedule.kind = "every" /\ EvSchedule.n = 6
  /\ EvLastRun # 0 /\ now - EvLastRun = 6 * 3600
  /\ ev.due

\* C15: for 'weekly DAY HH:MM' isDue is false on every other local weekday,
\* and on the weekday DAY it is true exactly when the daily rule for HH:MM
\* holds.
WeeklyDueExactly ==
  (ev.pc = "done" /\ EvSchedule.kind = "weekly" /\ DayNumber(EvSchedule.day) >= 0)
    => (ev.due <=> (/\ EvLocal.dayOfWeek = DayNumber(EvSchedule.day)
                    /\ DailyRule(EvSchedule.h, EvSchedule.m, ev.tz, now, EvLastRun)))

\* C16: a schedule of none of the three shapes (a weekly schedule with an
\* unknown weekday name included) is never due and never triggered.
Unrecognized(sch) ==
  sch.kind \notin {"daily", "every", "weekly"}
    \/ (sch.kind = "weekly" /\ DayNumber(sch.day) < 0)

UnrecognizedNeverDue ==
  (ev.pc = "done" /\ Unrecognized(EvSchedule))
    => (~ev.due /\ "triggering" \notin ev.log)

\* A weekly schedule with an unknown weekday, evaluated with no prior run on
\* a Sunday after its time of day.
UnknownWeekdayOnSunday ==
  /\ ev.pc = "done" /\ EvSchedule.kind = "weekly" /\ EvSchedule.day = "xyz"
  /\ EvLastRun = 0
  /\ EvLocal.dayOfWeek = 0 /\ EvLocal.secOfDay > EvSchedule.h * 3600
  /\ ~ev.due

\* C17: the evaluation of a job with an unrecognized schedule emits a
\* configuration-error entry for it.
UnrecognizedReported ==
  (ev.pc = "done" /\ Unrecognized(EvSchedule)) => "config-error" \in ev.log

\* C18: with a zone setting that neither the runtime nor the Kyiv/Kiev alias
\* resolves, the evaluation completes in UTC and the fallback is logged.
TimezoneFallsBackToUTC ==
  (ev.pc = "done" /\ ev.setting \notin ev.known /\ Alias(ev.setting) \notin ev.known)
    => /\ ev.tz = "UTC"
       /\ "tz-fallback" \in ev.log
       /\ ev.due = isDue(ev.job, "UTC", now, runs)

\* A daily job evaluated in UTC at 02:00 UTC after the fallback.
EvaluatedInUTC ==
  /\ ev.pc = "done" /\ ev.setting = "Mars/Phobos" /\ ev.tz = "UTC"
  /\ EvSchedule.kind = "daily" /\ now % DAY = 10800 /\ EvLastRun = 0
  /\ ev.due /\ "tz-fallback" \in ev.log

AtMostOnePassInProgress == Cardinality(passes) <= 1

\* C21: once the 'close' handler of a run has run, the status of the Run is
\* the one that handler determined from the exit code and the signal, also
\* when the stop route had finalized the Run itself before.
CloseHandlerDecides ==
  \A r \in Ids :
    child[r].st = "closed"
      => runs[r].status =
           IF closure[r].route = "verify"
           THEN VerifyCloseStatus(child[r].code, child[r].signal, runs[r].errors_count)
           ELSE CloseStatus(child[r].code, child[r].signal)

\* The stop route marked the Run cancelled itself (stopProcess returned
\* false), then the process closed with exit code 0 and the Run is a success.
StopReconciledThenClosed ==
  \E r \in reconciled :
    /\ child[r].st = "closed" /\ child[r].code = 0 /\ child[r].signal = "null"
    /\ closure[r].route = "run"
    /\ runs[r].status = "success"

\* C22: a run or verify request for a job whose source path or destination
\* path is empty spawns no subprocess and registers no process handle.
RequestForJob(j) == resp'.op \in {"run", "verify"} /\ resp'.id = j

NoSpawnWithoutPaths ==
  [][\A j \in JobIds :
       (/\ RequestForJob(j)
        /\ (getJobById(j).source_path = "" \/ getJobById(j).destination_path = ""))
         => (child' = child /\ runningProcesses' = runningProcesses)]_vars

\* A run of job 3, which has no destination path, was requested and refused.
RunRefusedWithoutPaths ==
  /\ resp = Response("run", 3, 400)
  /\ getJobById(3).destination_path = ""
  /\ \A r \in RunIds : child[r].st = "none"
  /\ runningProcesses = {}

\* C23: after a run request for a job whose source path or destination path
\* is empty, the job has a Run record finalized with status 'failure'.
FailureRunWithoutPaths ==
  \A j \in JobIds :
    (/\ resp.op \in {"run", "verify"} /\ resp.id = j
     /\ (getJobById(j).source_path = "" \/ getJobById(j).destination_path = ""))
      => \E r \in Ids : runs[r].job_id = j /\ runs[r].status = "failure"

\* C24: the 'close' handler of a backup run that finalizes the Run as
\* 'failure' persists max(parser error count, 1) as its error count, and one
\* that finalizes it as 'success' persists the parser's error count.
CloseKeepsErrorCount ==
  [][\A r \in Ids :
       (/\ child[r].st # "closed" /\ child'[r].st = "closed"
        /\ closure[r].route = "run")
         => /\ runs'[r].status = "failure"
                 => runs'[r].errors_count = Max({closure[r].errorsCount, 1})
            /\ runs'[r].status = "success"
                 => runs'[r].errors_count = closure[r].errorsCount]_vars

\* A backup run whose parser reported no error failed with exit code 1: the
\* persisted error count is 1.
FailureCountsOneError ==
  \E r \in Ids :
    /\ child[r].st = "closed" /\ child[r].code = 1 /\ child[r].signal = "null"
    /\ closure[r].route = "run"
    /\ runs[r].status = "failure" /\ runs[r].errors_count = 1

\* C25: a parse pass persists a progress snapshot of a run only if at least
\* 5 s have passed since the snapshot persisted before it; the time of the
\* last persisted snapshot of a run never decreases.
SnapshotsFiveSecondsApart ==
  [][\A r \in RunIds :
       closure'[r].lastProgressUpdate # closure[r].lastProgressUpdate
         => \/ child'[r].st = "closed"
            \/ /\ closure'[r].lastProgressUpdate = now
               /\ now - closure[r].lastProgressUpdate >= PROGRESS_INTERVAL]_vars

\* A snapshot with error count 0 was persisted when the run started; a parse
\* pass less than 5 s later read error count 3 and persisted nothing.
SnapshotHeldBack ==
  \E r \in Ids :
    /\ child[r].st = "live"
    /\ closure[r].lastProgressUpdate = T0 /\ now = T0 + 3
    /\ closure[r].errorsCount = 3 /\ runs[r].errors_count = 0

\* C26: the counters after the whole stream has been consumed are those of
\* the same stream delivered in a single chunk, wherever the stream is cut.
ChunkingIndependent ==
  parser.pc = "done" => parser.c = parseRcloneStats(NoCounters, parser.text)

\* The counters that the rules of the parser give after one line: a line
\* that is a JSON value changes a counter only through a member of its stats
\* object; any other line changes a counter only through the free-text
\* pattern of that counter; the rate-limit counter counts matching lines.
LastMember(line, k) ==
  LET S == {i \in 1..Len(line) : line[i].k = k}
  IN  IF S = {} THEN 0 ELSE CHOOSE i \in S : \A j \in S : j <= i

ExpectedLine(c, line) ==
  LET json == JsonKind(line) \in {"stats", "other"}
      stats == JsonKind(line) = "stats"
      b == LastMember(line, "bytes")
      f == LastMember(line, "transfers")
      e == LastMember(line, "errors")
      text == TextUpdate(c, line)
  IN  [bytes |-> IF json THEN (IF stats /\ b > 0 THEN Limbs(line[b].v) ELSE c.bytes)
                 ELSE text.bytes,
       files |-> IF json THEN (IF stats /\ f > 0 THEN line[f].v ELSE c.files)
                 ELSE text.files,
       errors |-> IF json THEN (IF stats /\ e > 0 THEN line[e].v ELSE c.errors)
                  ELSE text.errors,
       rateLimitHits |-> c.rateLimitHits + (IF RateLimited(line) THEN 1 ELSE 0)]

RECURSIVE ExpectedAfter(_, _, _)
ExpectedAfter(c, lines, i) ==
  IF i > Len(lines) THEN c
  ELSE IF lines[i] = << >> THEN ExpectedAfter(c, lines, i + 1)
  ELSE ExpectedAfter(ExpectedLine(c, lines[i]), lines, i + 1)

\* C27: a parse pass processes every line of its chunk, whatever the lines
\* before it were: a JSON line updates counters only from its stats object,
\* the free-text patterns are applied only to a line that is not JSON, and a
\* line that matches nothing leaves every counter unchanged.
LinesParsedByRule ==
  parser.fed > 0 => parser.c = ExpectedAfter(parser.before, split(parser.last), 1)

\* One chunk held the JSON text null, on which reading the stats raises an
\* exception, and then a JSON statistics line: its counters were taken.
StatsAfterMalformedLine ==
  /\ parser.pc = "done" /\ parser.cut = 0
  /\ Len(parser.text) > 2
  /\ parser.text[1] = Tok("null", 0) /\ parser.text[2] = Newline
  /\ parser.text[3] = Tok("{stats", 0)
  /\ parser.c.errors = 3 /\ parser.c.files = 2 /\ parser.c.bytes = <<0, 2>>

\* A byte count times m, for 0 <= m < Base.
RECURSIVE TimesSmall(_, _, _)
TimesSmall(ds, m, carry) ==
  IF ds = << >> THEN (IF carry = 0 THEN << >> ELSE <<carry>>)
  ELSE <<(ds[1] * m + carry) % Base>>
         \o TimesSmall(Tail(ds), m, (ds[1] * m + carry) \div Base)

\* a <= b for byte counts without leading zero limbs
CountLeq(a, b) ==
  \/ Len(a) < Len(b)
  \/ /\ Len(a) = Len(b)
     /\ \/ a = b
        \/ \E i \in 1..Len(a) : a[i] < b[i] /\ \A j \in (i + 1)..Len(a) : a[j] = b[j]

UnitExponent(unit) ==
  CASE unit = "B" -> 0
    [] unit \in {"KiB", "KB"} -> 1
    [] unit \in {"MiB", "MB"} -> 2
    [] unit \in {"GiB", "GB"} -> 3
    [] unit \in {"TiB", "TB"} -> 4

\* C28: for the units B, KiB/KB, MiB/MB, GiB/GB, TiB/TB the conversion gives
\* the integer nearest to value * 1024^k (halves rounded up), the same for
\* the decimal-looking and the binary unit; '500 KB' gives 500 * 1024.
ConversionByPowersOf1024 ==
  (conv.pc = "done" /\ conv.unit \in {"B", "KiB", "KB", "MiB", "MB", "GiB", "GB", "TiB", "TB"})
    => LET tenR == Trim(TimesSmall(conv.bytes, 10, 0))
           n5 == Trim(AddSmall(Times1024(Limbs(conv.value), UnitExponent(conv.unit)), 5))
       IN  /\ conv.bytes = Trim(conv.bytes)
           /\ CountLeq(tenR, n5)
           /\ CountLeq(n5, Trim(AddSmall(tenR, 9)))
           /\ (conv.value = 5000 /\ conv.unit = "KB") => conv.bytes = Limbs(500 * 1024)

\* '500 KB' was converted to 512000 bytes.
FiveHundredKB ==
  /\ conv.pc = "done" /\ conv.value = 5000 /\ conv.unit = "KB"
  /\ conv.bytes = <<0, 500>>

\* C29: every trigger issued by the scheduler is for a job that is enabled
\* and has a schedule, a source path and a destination path.
OnlyConfiguredJobsTriggered ==
  \A t \in triggers :
    LET job == getJobById(t.job)
    IN  /\ job.enabled
        /\ job.schedule.kind # "empty"
        /\ job.source_path # "" /\ job.destination_path # ""

\* A pass has run to its end at a time when the disabled job 4 is due and
\* has no Run, and has triggered another job but not job 4.
DisabledJobPassedOver ==
  /\ nextPass >= 1 /\ passes = {}
  /\ ~Jobs[4].enabled /\ isDue(Jobs[4], SchedTz, now, runs)
  /\ triggers # {}
  /\ \A t \in triggers : t.job # 4

Args == {cmd.args[i] : i \in 1..Len(cmd.args)}

\* C30: the subcommand is copy, sync or check for the copy, mirror and verify
\* kind; --one-way is among the arguments exactly for the verify kind and
\* --bwlimit exactly when a bandwidth limit is configured.
SubcommandByKind ==
  cmd.pc = "done"
    => /\ cmd.job.type = "rclone_copy" => cmd.args[1] = "copy"
       /\ cmd.job.type = "rclone_sync" => cmd.args[1] = "sync"
       /\ cmd.job.type = "rclone_check" => cmd.args[1] = "check"
       /\ "--one-way" \in Args <=> cmd.job.type = "rclone_check"
       /\ "--bwlimit" \in Args <=> cmd.maxBandwidth # ""

\* The arguments of a verify-kind job with a bandwidth limit of 10M.
CheckWithBandwidth ==
  /\ cmd.pc = "done" /\ cmd.job.type = "rclone_check" /\ cmd.maxBandwidth = "10M"
  /\ cmd.args[1] = "check"
  /\ \E i \in 1..(Len(cmd.args) - 1) : cmd.args[i] = "--bwlimit" /\ cmd.args[i + 1] = "10M"
  /\ "--one-way" \in Args

\* The last n elements of a sequence.
LastElements(s, n) == SubSeq(s, Len(s) - n + 1, Len(s))

\* C31: the arguments of every non-empty extra-arguments value (the elements
\* of a JSON array, the words of a value of any other form) are the last
\* arguments of the command, in their order.
ExtraArgumentsAppended ==
  (cmd.pc = "done" /\ cmd.flags.form # "none")
    => /\ Len(cmd.args) >= Len(cmd.flags.parts)
       /\ LastElements(cmd.args, Len(cmd.flags.parts)) = cmd.flags.parts

\* The same for the values that are a JSON array or are not JSON at all.
ArrayOrTextAppended ==
  (cmd.pc = "done" /\ cmd.flags.form \in {"array", "text"})
    => /\ Len(cmd.args) >= Len(cmd.flags.parts)
       /\ LastElements(cmd.args, Len(cmd.flags.parts)) = cmd.flags.parts

\* The step is a stop request for run r that found a registered process not
\* yet signalled (stopProcess returns true).
StopSignalSent(r) ==
  /\ resp'.op = "stop" /\ resp'.id = r
  /\ getRunById(runs, r).status = "running"
  /\ r \in runningProcesses /\ ~child[r].killed

\* The stop request for which stopProcess returns true leaves the runs table
\* as it is.
StopSignalLeavesRun ==
  [][\A r \in RunIds : StopSignalSent(r) => runs' = runs]_vars

\* C32: a Run whose process was signalled by a stop request stays 'running'
\* until the 'close' handler of its process finalizes it: no other step
\* writes the terminal status of a signalled run.
SignalledRunFinalizedByClose ==
  [][\A r \in Ids :
       (child[r].killed /\ runs[r].status = "running" /\ runs'[r].status # "running")
         => (child[r].st # "closed" /\ child'[r].st = "closed")]_vars

\* The index of a job in the jobs list.
IndexOf(jobId) == CHOOSE i \in 1..Len(Jobs) : Jobs[i].id = jobId

\* C33: the debounce timestamp of a job is set in the step that issues its
\* trigger, before the run request is delivered; a job is not triggered
\* again less than the debounce window after its last trigger, whether that
\* trigger created a Run or not; and a tick that starts once the window has
\* elapsed, at which the job is enabled, configured, due and without a running
\* Run, and which reaches the job without an exception, triggers it again.
DebounceSurvivesFailedTrigger ==
  [][/\ \A t \in triggers' \ triggers :
          /\ recentlyTriggered'[t.job] = t.at
          /\ recentlyTriggered[t.job] = 0
               \/ t.at - recentlyTriggered[t.job] >= DEBOUNCE_WINDOW
     /\ \A k \in 1..Len(Jobs) :
          (/\ nextPass' = nextPass + 1 /\ aborted' = aborted
           /\ recentlyTriggered[Jobs[k].id] # 0
           /\ now - recentlyTriggered[Jobs[k].id] >= DEBOUNCE_WINDOW
           /\ Jobs[k].enabled /\ Jobs[k].schedule.kind # "empty"
           /\ Jobs[k].source_path # "" /\ Jobs[k].destination_path # ""
           /\ RunningRuns(runs, Jobs[k].id) = {}
           /\ isDue(Jobs[k], SchedTz, now, runs)
           /\ \A t \in triggers' \ triggers : IndexOf(t.job) >= k)
            => \E t \in triggers' \ triggers : t.job = Jobs[k].id /\ t.at = now]_vars

\* The trigger of job 1 by the first tick created no Run (the run request
\* failed); the tick one debounce window later triggered job 1 again.
RetriggeredAfterWindow ==
  /\ \E t \in triggers : t.job = 1 /\ t.pass = 1 /\ t.at = T0
  /\ \E t \in triggers : t.job = 1 /\ t.pass = 2 /\ t.at = T0 + DEBOUNCE_WINDOW
  /\ \A r \in Ids : runs[r].job_id # 1

\* C34: at most one periodic tick timer is active, whatever startScheduler
\* and stopScheduler calls were made.
AtMostOneTickTimer == Cardinality(timers.intervals) <= 1

\* C35: once stopScheduler has returned, and until startScheduler is called
\* again, no checkAndRun pass starts and the scheduler triggers no job.
NoTickAfterStop ==
  [][timers.stopped => (nextPass' = nextPass /\ triggers' = triggers)]_vars

\* A process of this server is registered for run r and has not exited.
LiveRegistered(r) == r \in runningProcesses /\ child[r].st = "live"

\* C36: a stop request for a running Run with a registered live process
\* sends the termination signal to it, arms the force-kill timer and leaves
\* the Run to the close handler (stopProcess returns true), also when the
\* process was signalled before and is still terminating.
LiveProcessStopped ==
  [][\A r \in RunIds :
       (/\ resp'.op = "stop" /\ resp'.id = r
        /\ getRunById(runs, r).status = "running"
        /\ LiveRegistered(r))
         => /\ killTimers'[r] = killTimers[r] + 1
            /\ child'[r].killed /\ child'[r].lastSignal = "SIGTERM"
            /\ runs' = runs]_vars

\* C37 as stated: a Run is 'cancelled' only if a stop request was made for
\* it (a stop request signalled its process, or finalized the Run itself).
CancelledOnlyByStopRequest ==
  \A r \in Ids :
    runs[r].status = "cancelled" => (child[r].killed \/ r \in reconciled)

\* C37: a Run is 'cancelled' only if the stop route finalized it itself or
\* its process was terminated by SIGTERM or SIGKILL, whoever sent the signal;
\* a process that ended in any other way has a Run finalized as success or
\* failure, whatever a stop request wrote before.
CancelledOnlyBySignalOrStop ==
  \A r \in Ids :
    /\ runs[r].status = "cancelled"
         => \/ r \in reconciled
            \/ child[r].st = "closed" /\ child[r].signal \in CancelSignals
    /\ (child[r].st = "closed" /\ child[r].signal \notin CancelSignals)
         => runs[r].status \in {"success", "failure"}

\* A process was killed with SIGKILL by something other than a stop request
\* (no stop request was ever made for the Run): the Run is 'cancelled'.
CancelledWithoutStopRequest ==
  \E r \in Ids :
    /\ child[r].st = "closed" /\ child[r].signal = "SIGKILL"
    /\ ~child[r].killed /\ r \notin reconciled
    /\ runs[r].status = "cancelled"

\* C38: every Run for which a subprocess was spawned, or failed to spawn,
\* eventually has its 'close' event behind it with a terminal status, and
\* then no longer counts as a running Run of its job.
RunEventuallyFinalized ==
  \A r \in RunIds :
    (child[r].st \in {"live", "failed"})
      ~> (/\ child[r].st = "closed"
          /\ runs[r].status \in Terminal
          /\ r \notin RunningRuns(runs, runs[r].job_id))

\* The process of a Run of job 2 was stopped and has closed: the Run is
\* terminal and the scheduler finds no running Run of job 2.
JobEligibleAfterClose ==
  \E r \in Ids :
    /\ child[r].st = "closed" /\ child[r].killed
    /\ runs[r].job_id = 2 /\ runs[r].status \in Terminal
    /\ ~isJobRunning(runs, 2)

\* C39: a stop request for a run id without a row is answered 404, one for a
\* Run whose status is not 'running' is answered 400; either sends no
\* signal, arms no timer and leaves the runs table and the process registry
\* as they are.
StopRefusedWithoutEffect ==
  [][\A r \in RunIds :
       (/\ resp'.op = "stop" /\ resp'.id = r
        /\ (r \notin Ids \/ runs[r].status # "running"))
         => /\ resp'.status = IF r \in Ids THEN 400 ELSE 404
            /\ child' = child /\ killTimers' = killTimers
            /\ runs' = runs /\ runningProcesses' = runningProcesses]_vars

\* A stop request for a Run that is already 'cancelled' was answered 400
\* while the process of the Run is alive and registered: no signal was sent
\* by it and no timer armed.
StopOfFinishedRunRefused ==
  \E r \in Ids :
    /\ resp = Response("stop", r, 400)
    /\ runs[r].status = "cancelled"
    /\ child[r].st = "live" /\ r \in runningProcesses
    /\ killTimers[r] = 0

\* A stop request for a run id that has no row was answered 404.
StopOfUnknownRunRefused ==
  \E r \in RunIds : r \notin Ids /\ resp = Response("stop", r, 404)

====
